---- MODULE Spec2Model ----
(***************************************************************************)
(* Model of the sliding-sync engine Sync3 (src/unnamed/part_001):          *)
(*   - the lifecycle surface start() / stop(),                             *)
(*   - the async syncLoop(), one step per stretch of code between two      *)
(*     suspension points (await),                                          *)
(*   - the op reconciler processOps().                                     *)
(* Several invocations of syncLoop can be alive at once (start() launches  *)
(* one without waiting for the previous one to return), so the loop-local  *)
(* variables live in one record per invocation.                            *)
(***************************************************************************)
EXTENDS Integers, Sequences, FiniteSets, TLC

VARIABLES
    status,          \* this.status.get()
    error,           \* this.error
    currentRequest,  \* this.currentRequest: 0 (null) or the loop whose request it is
    loops,           \* the invocations of syncLoop: locals and position
    lastCall,        \* history: the operation that took the last step
    ranges,          \* this.ranges: the sliding windows, a sequence of <<low, high>>
    roomIndexToRoomId, \* this.roomIndexToRoomId: the stored index -> room id map
    call,            \* the call of processOps in progress: locals and position
    timeoutCall,     \* a call of abortOnTimeout (src/unnamed/part_000): its timeout,
                     \* request, promises and pending promise callbacks
    heroes,          \* a Heroes object (src/unnamed/part_003): its members, room name
                     \* and the changes calculated last
    logger           \* an IDBLogger (src/src/domain/session/room/timeline/tiles/
                     \* TextTile.js, lines 90-223): its queue, the logs store and the
                     \* calls of _tryFlush and _removeItems in progress

opsVars == <<ranges, roomIndexToRoomId, call>>
syncVars == <<status, error, currentRequest, loops, lastCall>>
libVars == <<timeoutCall, heroes, logger>>
vars == <<status, error, currentRequest, loops, lastCall, ranges, roomIndexToRoomId, call,
          timeoutCall, heroes, logger>>

----------------------------------------------------------------------------
\* Bounds of the model.

\* Spec, the interleavings of start(), stop() and several loops: syncLoop invocations
\* alive at the same time, position tokens the server hands out (1..MaxPos),
\* consecutive failed requests of one loop.
MaxLoops == 2
MaxPos == 1
MaxFail == 1
\* SpecLoop, one invocation in depth: the same, with enough consecutive failures to
\* pass the backoff cap.
LoopLoops == 1
LoopPos == 2
LoopFail == 6
\* SpecFair, the progress of the loop: the same.
FairLoops == 1
FairPos == 1
FairFail == 1
\* SpecOps, the reconciler: the indexes are 0..MaxIndex, a batch has at most MaxOps
\* ops, a SYNC op at most MaxRooms rooms, this.ranges at most MaxRanges windows.
MaxIndex == 1
MaxOps == 2
MaxRooms == 1
MaxRanges == 1
\* SpecShift, the INSERT/DELETE shifts of the reconciler: the indexes are
\* 0..ShiftIndex, a batch has at most ShiftOps ops, this.ranges at most ShiftRanges
\* windows.
ShiftIndex == 2
ShiftOps == 2
ShiftRanges == 2
\* SpecExample, the worked example of the shift: a batch has at most ExampleLen ops.
ExampleLen == 3

----------------------------------------------------------------------------
\* Program constants.

\* `pos` of syncLoop(undefined): no position yet.
Undefined == 0
\* cap of backoffCounter
BackoffCap == 5

SyncStatus == {"InitialSync", "Syncing", "Stopped"}

RECURSIVE Pow2(_)
\* Math.pow(2, n)
Pow2(n) == IF n = 0 THEN 1 ELSE 2 * Pow2(n - 1)

\* An invocation slot in which no syncLoop is running (never launched, or returned).
\* pos, backoffCounter, isFirstSync, secs: the locals of syncLoop.
\* req, reqPos, reqSticky: the request of the current iteration (state of the handle,
\*   its ?pos= parameter, whether its body has the sticky parameters).
\* resp, respBad: the response body being processed.
\* consecFail, lastOutcome: history (failures since the last received response, how
\*   the previous request of this invocation ended: "none" before the first one ends,
\*   "ok", "abort", or "fail" for a failed request and for a response whose processing
\*   threw).
NoLoop ==
    [pc |-> "none", pos |-> Undefined, backoffCounter |-> 0, isFirstSync |-> FALSE,
     req |-> "none", reqPos |-> Undefined, reqSticky |-> FALSE,
     resp |-> Undefined, respBad |-> FALSE, secs |-> 0,
     consecFail |-> 0, lastOutcome |-> "none"]

IsFirstSyncOnce(l, st) == l.lastOutcome = "none"

\* let isFirstSync = this.status.get() === SyncStatus.InitialSync (line 159)
IsFirstSync(l, st) == st = "InitialSync"

\* Top of the while loop (lines 158-177): the loop returns when status is Stopped,
\* else it computes isFirstSync, builds the request body and suspends in sleep(100).
LoopTop(l, st) ==
    IF st = "Stopped"
    THEN NoLoop
    ELSE [l EXCEPT !.pc = "sleep", !.isFirstSync = IsFirstSync(l, st),
                   !.req = "none", !.reqPos = Undefined, !.reqSticky = FALSE,
                   !.resp = Undefined, !.respBad = FALSE, !.secs = 0]

BackoffCounterUncapped(bc) == bc + 1

\* backoffCounter += 1; if (backoffCounter > 5) backoffCounter = 5
BackoffCounterAfterFailure(bc) == IF bc + 1 > BackoffCap THEN BackoffCap ELSE bc + 1

\* The catch branch for an error that is not an AbortError (lines 199-209).
CatchError(l, outcome) ==
    LET bc == BackoffCounterAfterFailure(l.backoffCounter) IN
    [l EXCEPT !.pc = "backoff", !.backoffCounter = bc, !.secs = Pow2(bc),
              !.req = "none", !.reqPos = Undefined, !.reqSticky = FALSE,
              !.resp = Undefined, !.respBad = FALSE,
              !.consecFail = l.consecFail + 1, !.lastOutcome = outcome]

CatchAbortAsFailure(l, st) == IF st = "Stopped" THEN NoLoop ELSE CatchError(l, "abort")

CatchAbortReturn(l, st) == NoLoop

\* The catch branch for an AbortError (lines 192-198): return when stopped, else continue.
CatchAbort(l, st) == LoopTop([l EXCEPT !.lastOutcome = "abort"], st)

----------------------------------------------------------------------------
\* The reconciler: processOps (lines 257-369) and indexInRange (lines 433-441).

Indexes == 0..MaxIndex
RoomIds == {"a", "b"}

\* An index -> room id object is a function on the keys it has; reading a key it
\* does not have gives undefined, and a key can hold undefined.
EmptyMap == [k \in {} |-> "undefined"]
Get(m, j) == IF j \in DOMAIN m THEN m[j] ELSE "undefined"
Set(m, j, v) == [k \in DOMAIN m \cup {j} |-> IF k = j THEN v ELSE m[k]]
Delete(m, j) == [k \in DOMAIN m \ {j} |-> m[k]]
\* if (indexToRoomID[op.index]): a room id is a non-empty string
Truthy(v) == v # "undefined"

\* indexInRange(ranges, i)
indexInRange(rs, i) == \E n \in 1..Len(rs) : rs[n][1] <= i /\ i <= rs[n][2]

\* No call of processOps in progress. indexToRoomID, roomUpdates, gapIndex, i: the
\* locals of processOps; seen: history, the kinds of skipped ops met so far.
NoCall ==
    [pc |-> "idle", indexToRoomID |-> EmptyMap, roomUpdates |-> <<>>, gapIndex |-> -1,
     i |-> 0, seen |-> {}]

\* The ops of a response. has: the fields the op has; a field it does not have is
\* undefined and its value here is not read.
\* op has a known tag and the fields the tag requires (interface Op, lines 80-83)
WellFormed(op) ==
    CASE op.op \in {"SYNC"} -> {"range", "rooms"} \subseteq op.has
      [] op.op \in {"INVALIDATE"} -> "range" \in op.has
      [] op.op \in {"INSERT", "UPDATE"} -> {"index", "room"} \subseteq op.has
      [] op.op \in {"DELETE"} -> "index" \in op.has
      [] OTHER -> FALSE
OpRanges == Indexes \X Indexes
RoomLists == UNION {[1..n -> RoomIds] : n \in 0..MaxRooms}
Fields == {"range", "rooms", "index", "room"}
Ops ==
    [op : {"SYNC"}, has : {{"range", "rooms"}}, range : OpRanges,
     rooms : RoomLists, index : {0}, room : {"a"}]
    \cup
    [op : {"INVALIDATE"}, has : {{"range"}}, range : OpRanges,
     rooms : {<<>>}, index : {0}, room : {"a"}]
    \cup
    [op : {"INSERT", "UPDATE"}, has : {{"index", "room"}}, range : {<<0, 0>>},
     rooms : {<<>>}, index : Indexes, room : RoomIds]
    \cup
    [op : {"DELETE"}, has : {{"index"}}, range : {<<0, 0>>},
     rooms : {<<>>}, index : Indexes, room : {"a"}]
    \cup
    {o \in [op : {"SYNC", "INVALIDATE", "INSERT", "UPDATE", "DELETE", "MOVE"},
            has : {{}, {"range"}, {"rooms"}, {"index"}, {"room"}}, range : {<<0, 0>>},
            rooms : {<<"a">>}, index : {0}, room : {"a"}] : ~WellFormed(o)}

\* Well-formed ops on one index.
DeleteAt(i) ==
    [op |-> "DELETE", has |-> {"index"}, range |-> <<0, 0>>, rooms |-> <<>>,
     index |-> i, room |-> "a"]
InsertAt(i, r) ==
    [op |-> "INSERT", has |-> {"index", "room"}, range |-> <<0, 0>>, rooms |-> <<>>,
     index |-> i, room |-> r]
UpdateAt(i, r) ==
    [op |-> "UPDATE", has |-> {"index", "room"}, range |-> <<0, 0>>, rooms |-> <<>>,
     index |-> i, room |-> r]

RECURSIVE SyncRoomsClearsRest(_, _, _)
SyncRoomsClearsRest(c, op, j) ==
    IF j > op.range[2]
    THEN c
    ELSE IF j - op.range[1] + 1 > Len(op.rooms)
    THEN SyncRoomsClearsRest([c EXCEPT !.indexToRoomID = Delete(c.indexToRoomID, j)], op, j + 1)
    ELSE LET r == op.rooms[j - op.range[1] + 1] IN
         SyncRoomsClearsRest([c EXCEPT !.indexToRoomID = Set(c.indexToRoomID, j, r),
                                       !.roomUpdates = Append(c.roomUpdates, r)], op, j + 1)

RECURSIVE SyncRooms(_, _, _)
\* The for loop of SYNC (lines 274-281), from index j on; c is
\* [indexToRoomID, roomUpdates, gapIndex, seen].
SyncRooms(c, op, j) ==
    IF j > op.range[2] \/ j - op.range[1] + 1 > Len(op.rooms)
    THEN c
    ELSE LET r == op.rooms[j - op.range[1] + 1] IN
         SyncRooms([c EXCEPT !.indexToRoomID = Set(c.indexToRoomID, j, r),
                             !.roomUpdates = Append(c.roomUpdates, r)], op, j + 1)

RECURSIVE InvalidateRangeExclusive(_, _, _)
InvalidateRangeExclusive(m, op, j) ==
    IF j >= op.range[2] THEN m ELSE InvalidateRangeExclusive(Delete(m, j), op, j + 1)

RECURSIVE InvalidateRange(_, _, _)
\* The for loop of INVALIDATE (lines 290-292), from index j on.
InvalidateRange(m, op, j) ==
    IF j > op.range[2] THEN m ELSE InvalidateRange(Delete(m, j), op, j + 1)

RECURSIVE ShiftRightIgnoresRanges(_, _, _, _)
ShiftRightIgnoresRanges(m, rs, j, index) ==
    IF ~(j > index) THEN m
    ELSE ShiftRightIgnoresRanges(Set(m, j, Get(m, j - 1)), rs, j - 1, index)

RECURSIVE ShiftRightCopiesFromRight(_, _, _, _)
ShiftRightCopiesFromRight(m, rs, j, index) ==
    IF ~(j > index) THEN m
    ELSE ShiftRightCopiesFromRight(IF indexInRange(rs, j) THEN Set(m, j, Get(m, j + 1)) ELSE m,
                                   rs, j - 1, index)

RECURSIVE ShiftRight(_, _, _, _)
\* The loop of lines 321-325: for (j = gapIndex; j > op.index; j--).
ShiftRight(m, rs, j, index) ==
    IF ~(j > index) THEN m
    ELSE ShiftRight(IF indexInRange(rs, j) THEN Set(m, j, Get(m, j - 1)) ELSE m,
                    rs, j - 1, index)

RECURSIVE ShiftLeftStopsBeforeIndex(_, _, _, _)
ShiftLeftStopsBeforeIndex(m, rs, j, index) ==
    IF ~(j < index - 1) THEN m
    ELSE ShiftLeftStopsBeforeIndex(IF indexInRange(rs, j) THEN Set(m, j, Get(m, j + 1)) ELSE m,
                                   rs, j + 1, index)

RECURSIVE ShiftLeft(_, _, _, _)
\* The loop of lines 329-333: for (j = gapIndex; j < op.index; j++).
ShiftLeft(m, rs, j, index) ==
    IF ~(j < index) THEN m
    ELSE ShiftLeft(IF indexInRange(rs, j) THEN Set(m, j, Get(m, j + 1)) ELSE m,
                   rs, j + 1, index)

\* A skipped op: console.error and continue.
Skip(c, kind) == [c EXCEPT !.seen = c.seen \cup {kind}]

\* The shift of a well-formed INSERT at an occupied index (lines 313-334).
Shifted(c, op, rs) ==
    LET m == c.indexToRoomID IN
    IF ~Truthy(Get(m, op.index)) THEN m
    ELSE IF c.gapIndex > op.index THEN ShiftRight(m, rs, c.gapIndex, op.index)
    ELSE IF c.gapIndex < op.index THEN ShiftLeft(m, rs, c.gapIndex, op.index)
    ELSE m

InsertAssignsOnlyAfterShift(c, op, rs) ==
    IF Truthy(Get(c.indexToRoomID, op.index)) /\ c.gapIndex < 0
    THEN Skip(c, "nogap")
    ELSE IF Truthy(Get(c.indexToRoomID, op.index))
    THEN [c EXCEPT !.indexToRoomID = Set(Shifted(c, op, rs), op.index, op.room),
                   !.roomUpdates = Append(c.roomUpdates, op.room)]
    ELSE [c EXCEPT !.roomUpdates = Append(c.roomUpdates, op.room)]

InsertOverwritesWithoutGap(c, op, rs) ==
    [c EXCEPT !.indexToRoomID =
                  Set(IF c.gapIndex < 0 THEN c.indexToRoomID ELSE Shifted(c, op, rs),
                      op.index, op.room),
              !.roomUpdates = Append(c.roomUpdates, op.room)]

\* A well-formed INSERT (lines 300-339).
InsertOp(c, op, rs) ==
    IF Truthy(Get(c.indexToRoomID, op.index)) /\ c.gapIndex < 0
    THEN Skip(c, "nogap")
    ELSE [c EXCEPT !.indexToRoomID = Set(Shifted(c, op, rs), op.index, op.room),
                   !.roomUpdates = Append(c.roomUpdates, op.room)]

\* A well-formed DELETE (lines 346-350).
DeleteOp(c, op) ==
    [c EXCEPT !.indexToRoomID = Delete(c.indexToRoomID, op.index),
              !.gapIndex = op.index]

UpdateOpCoalesces(c, op) ==
    IF \E k \in 1..Len(c.roomUpdates) : c.roomUpdates[k] = op.room
    THEN c
    ELSE [c EXCEPT !.roomUpdates = Append(c.roomUpdates, op.room)]

\* A well-formed UPDATE (lines 357-358).
UpdateOp(c, op) == [c EXCEPT !.roomUpdates = Append(c.roomUpdates, op.room)]

MissingFirstFieldOnly(op) ==
    CASE op.op \in {"SYNC", "INVALIDATE"} -> "range" \notin op.has
      [] op.op \in {"INSERT", "DELETE", "UPDATE"} -> "index" \notin op.has
      [] OTHER -> FALSE

\* The required-fields test of the case of op's tag (lines 268, 285, 296, 342, 353).
MissingField(op) ==
    CASE op.op = "SYNC" -> "range" \notin op.has \/ "rooms" \notin op.has
      [] op.op = "INVALIDATE" -> "range" \notin op.has
      [] op.op = "INSERT" -> "index" \notin op.has \/ "room" \notin op.has
      [] op.op = "DELETE" -> "index" \notin op.has
      [] op.op = "UPDATE" -> "index" \notin op.has \/ "room" \notin op.has
      [] OTHER -> FALSE

\* One iteration of the for loop of processOps (lines 265-362) on op, with
\* this.ranges = rs.
ApplyOp(c, op, rs) ==
    IF MissingField(op) THEN Skip(c, "malformed")
    ELSE CASE op.op = "SYNC" -> SyncRooms(c, op, op.range[1])
           [] op.op = "INVALIDATE" ->
                 [c EXCEPT !.indexToRoomID = InvalidateRange(c.indexToRoomID, op, op.range[1])]
           [] op.op = "INSERT" -> InsertOp(c, op, rs)
           [] op.op = "DELETE" -> DeleteOp(c, op)
           [] op.op = "UPDATE" -> UpdateOp(c, op)
           [] OTHER -> Skip(c, "unknown")

StoredAliased(stored, written) == written

\* let indexToRoomID = { ...this.roomIndexToRoomId } (line 260): the local is a copy,
\* so this.roomIndexToRoomId after a write to the local is what it was.
StoredAfterWrite(stored, written) == stored

\* processOps is entered: the copy is made and the locals are initialised (lines 260-264).
BeginProcessOps ==
    /\ call.pc = "idle"
    /\ call' = [NoCall EXCEPT !.pc = "loop", !.indexToRoomID = roomIndexToRoomId]
    /\ UNCHANGED <<libVars, status, error, currentRequest, loops, lastCall, ranges, roomIndexToRoomId>>

\* One iteration of the for loop, on the next op of a batch of at most n ops.
ProcessOpWithin(op, n) ==
    /\ call.pc = "loop"
    /\ call.i < n
    /\ LET c == ApplyOp(call, op, ranges) IN
       /\ call' = [c EXCEPT !.i = call.i + 1]
       /\ roomIndexToRoomId' = StoredAfterWrite(roomIndexToRoomId, c.indexToRoomID)
    /\ UNCHANGED <<libVars, status, error, currentRequest, loops, lastCall, ranges>>

ProcessOp(op) == ProcessOpWithin(op, MaxOps)

\* The batch is exhausted: processOps returns indexToRoomID and roomUpdates (lines 365-368).
ReturnProcessOps ==
    /\ call.pc = "loop"
    /\ call' = [call EXCEPT !.pc = "returned"]
    /\ UNCHANGED <<libVars, status, error, currentRequest, loops, lastCall, ranges, roomIndexToRoomId>>

\* processResponse has the result of processOps (line 220), calls prepareResponse(updates)
\* (line 224, its body is commented out) and returns (line 245): indexToRoom is not
\* stored anywhere.
ReturnProcessResponse ==
    /\ call.pc = "returned"
    /\ call' = NoCall
    /\ UNCHANGED <<libVars, status, error, currentRequest, loops, lastCall, ranges, roomIndexToRoomId>>

----------------------------------------------------------------------------
\* abortOnTimeout (src/unnamed/part_000, lines 21-48) with the request of its tests
\* (createRequest, lines 58-70). A promise callback does not run when its promise
\* settles but later, as a job of the microtask queue, in the order of settling.

ResponseValues == {"v5", "v6", "v7"}
ResponseErrors == {"AbortError", "NetworkError", "HomeServerError"}
TimeoutAmounts == {10000, 30000}
Pending == [state |-> "pending", v |-> "none"]

\* No call yet: the request exists, its response promise may settle.
\* timeoutAmount: the argument, which the ConnectionError reports;
\* timeout: "none" before createTimeout, then "pending", "elapsed" or "aborted";
\* timedOut: the local of abortOnTimeout; aborted: request.aborted, set by abort();
\* response: responsePromise; promise: the promise abortOnTimeout returns;
\* jobs: the promise callbacks that wait to run.
\* respAtElapse, respAtTimedOut, timeoutAtSettle: history (the state of the response
\* when the timeout elapsed and when its callback ran; the state of the timeout when
\* the response settled by itself).
NoTimeoutCall ==
    [pc |-> "idle", timeoutAmount |-> 0, timeout |-> "none", timedOut |-> FALSE, aborted |-> FALSE,
     response |-> Pending, promise |-> Pending, jobs |-> <<>>,
     respAtElapse |-> "none", respAtTimedOut |-> "none", timeoutAtSettle |-> "none"]


\* abortOnTimeout(createTimeout, timeoutAmount, requestResult, responsePromise) runs
\* (lines 22-47): the timeout is created and the callbacks are registered; a then()
\* on a promise that has settled queues its callback at once.
CallAbortOnTimeout(timeoutAmount) ==
    /\ timeoutCall.pc = "idle"
    /\ timeoutCall' = [timeoutCall EXCEPT
           !.pc = "called", !.timeoutAmount = timeoutAmount, !.timeout = "pending",
           !.jobs = IF timeoutCall.response.state = "pending" THEN <<>> ELSE <<"onResponse">>]
    /\ UNCHANGED <<syncVars, opsVars, heroes, logger>>

\* The timeout elapses: timeout.elapsed() resolves and its callback is queued.
Elapse ==
    /\ timeoutCall.timeout = "pending"
    /\ timeoutCall' = [timeoutCall EXCEPT
           !.timeout = "elapsed",
           !.respAtElapse = timeoutCall.response.state,
           !.jobs = Append(timeoutCall.jobs, "onElapsed")]
    /\ UNCHANGED <<syncVars, opsVars, heroes, logger>>

\* The response promise settles by itself (request.resolve, request.reject), with
\* state st and value or error v; its callback is queued when it is registered.
Settle(st, v) ==
    /\ timeoutCall.response.state = "pending"
    /\ timeoutCall' = [timeoutCall EXCEPT
           !.response = [state |-> st, v |-> v],
           !.timeoutAtSettle = IF timeoutCall.timeout = "none" THEN "pending"
                               ELSE timeoutCall.timeout,
           !.jobs = IF timeoutCall.pc = "idle" THEN timeoutCall.jobs
                    ELSE Append(timeoutCall.jobs, "onResponse")]
    /\ UNCHANGED <<syncVars, opsVars, heroes, logger>>

\* timeout.abort(): the timeout is cancelled unless it has elapsed; elapsed() then
\* rejects and the callback that ignores it (line 30) is queued.
TimeoutAbort(t) ==
    IF t.timeout = "pending"
    THEN [t EXCEPT !.timeout = "aborted", !.jobs = Append(t.jobs, "onTimeoutAborted")]
    ELSE t

\* requestResult.abort() (lines 60-63): aborted is set and the response promise
\* rejects with an AbortError, which has no effect on a settled promise.
RequestAbort(t) ==
    IF t.response.state = "pending"
    THEN [t EXCEPT !.aborted = TRUE,
                   !.response = [state |-> "rejected", v |-> "AbortError"],
                   !.jobs = Append(t.jobs, "onResponse")]
    ELSE [t EXCEPT !.aborted = TRUE]

OnElapsedWithoutFlag(t) ==
    RequestAbort([t EXCEPT !.respAtTimedOut = t.response.state])

\* The callback of timeout.elapsed() (lines 26-29).
OnElapsed(t) ==
    RequestAbort([t EXCEPT !.timedOut = TRUE, !.respAtTimedOut = t.response.state])

\* if (err.name === "AbortError" && timedOut) (line 41)
MapsToConnectionError(t, err) == err = "AbortError" /\ t.timedOut

\* The callbacks of responsePromise.then (lines 34-46).
OnResponse(t) ==
    LET u == TimeoutAbort(t) IN
    IF t.response.state = "resolved"
    THEN [u EXCEPT !.promise = t.response]
    ELSE [u EXCEPT !.promise =
             [state |-> "rejected",
              v |-> IF MapsToConnectionError(t, t.response.v)
                    THEN "ConnectionError" ELSE t.response.v]]

\* The first job of the microtask queue runs.
RunJob ==
    /\ timeoutCall.jobs # <<>>
    /\ LET job == Head(timeoutCall.jobs)
           t == [timeoutCall EXCEPT !.jobs = Tail(timeoutCall.jobs)]
       IN  timeoutCall' =
               CASE job = "onElapsed" -> OnElapsed(t)
                 [] job = "onResponse" -> OnResponse(t)
                 [] OTHER -> t
    /\ UNCHANGED <<syncVars, opsVars, heroes, logger>>

----------------------------------------------------------------------------
\* IDBLogger (src/src/domain/session/room/timeline/tiles/TextTile.js, lines 90-223).
\* A log item is known by the counter in its id (line 172). Transactions on the logs
\* store are readwrite on one store, so they take effect one at a time in the order
\* in which they were created.

MaxItems == 3
MaxFlushes == 2
LogLimit == 2

ItemIds == 1..MaxItems
FlushIds == 1..MaxFlushes

\* No call in progress. pc: "idle"; "open" while the call awaits _openDB(); "txn"
\* while it awaits its transaction. amount, added: the local of _tryFlush and the items
\* it has added to its transaction; items, deletes: the argument of _removeItems and
\* the ids it has asked the store to delete.
NoFlush == [pc |-> "idle", amount |-> 0, added |-> <<>>]
NoRemove == [pc |-> "idle", items |-> {}, deletes |-> {}]

\* The logger after the constructor, with nothing to load from localStorage (lines
\* 91-103, 151-163). logs: the keys of the logs store; txns: the transactions that
\* are not finished, oldest first; flushed, passed: history, the items a committed
\* flush has written and the items passed to _removeItems.
NewLogger ==
    [itemCounter |-> 0, queuedItems |-> <<>>, logs |-> {},
     flush |-> [f \in FlushIds |-> NoFlush], remove |-> NoRemove, txns |-> <<>>,
     flushed |-> {}, passed |-> {}]

SeqRange(q) == {q[k] : k \in 1..Len(q)}

\* array.splice(start, count), 1-based start
Splice(q, start, count) ==
    SubSeq(q, 1, start - 1) \o SubSeq(q, start + count, Len(q))

\* this._queuedItems.findIndex(i => i.id === item.id), 1-based, 0 when there is none
FindIndex(q, id) ==
    IF id \in SeqRange(q) THEN CHOOSE k \in 1..Len(q) : q[k] = id /\ \A j \in 1..(k - 1) : q[j] # id
    ELSE 0

\* _persistItem(serializedItem), lines 169-175
PersistItem ==
    /\ logger.itemCounter < MaxItems
    /\ logger' = [logger EXCEPT
           !.itemCounter = logger.itemCounter + 1,
           !.queuedItems = Append(logger.queuedItems, logger.itemCounter + 1)]
    /\ UNCHANGED <<syncVars, opsVars, timeoutCall, heroes>>

\* _tryFlush() is called and awaits _openDB() (lines 116-117).
TryFlush(f) ==
    /\ logger.flush[f].pc = "idle"
    /\ logger' = [logger EXCEPT !.flush[f].pc = "open"]
    /\ UNCHANGED <<syncVars, opsVars, timeoutCall, heroes>>

\* The database is open: the flush creates its transaction, adds the queued items
\* and awaits the count request (lines 119-125).
FlushAdd(f) ==
    /\ logger.flush[f].pc = "open"
    /\ logger' = [logger EXCEPT
           !.flush[f] = [pc |-> "txn", amount |-> Len(logger.queuedItems),
                         added |-> logger.queuedItems],
           !.txns = Append(logger.txns, f)]
    /\ UNCHANGED <<syncVars, opsVars, timeoutCall, heroes>>

\* (itemCount - this._limit) + Math.round(0.1 * this._limit), line 128
DeleteAmount(itemCount, limit) == (itemCount - limit) + ((limit + 5) \div 10)

RECURSIVE CursorDelete(_, _)
\* The cursor of lines 129-133 deletes the keys in their order until deleteAmount
\* is 0 or the store is empty.
CursorDelete(keys, deleteAmount) ==
    IF keys = {} \/ deleteAmount = 0 THEN keys
    ELSE LET first == CHOOSE k \in keys : \A j \in keys : k <= j
         IN  CursorDelete(keys \ {first}, deleteAmount - 1)

\* The keys of the store after the requests of lines 122-134.
LogsAfterFlush(keys, added, limit) ==
    LET all == keys \cup SeqRange(added)
    IN  IF Cardinality(all) > limit
        THEN CursorDelete(all, DeleteAmount(Cardinality(all), limit))
        ELSE all

\* this._queuedItems.splice(0, amount), line 136
QueueAfterFlush(q, amount) == Splice(q, 1, amount)

\* The transaction of the flush commits: logs.add fails on a key that is in the store,
\* so the keys added are new; the await of line 135 settles and the flushed items are
\* taken from the queue (line 136).
FlushCommit(f) ==
    /\ logger.flush[f].pc = "txn"
    /\ Head(logger.txns) = f
    /\ SeqRange(logger.flush[f].added) \cap logger.logs = {}
    /\ logger' = [logger EXCEPT
           !.logs = LogsAfterFlush(logger.logs, logger.flush[f].added, LogLimit),
           !.queuedItems = QueueAfterFlush(logger.queuedItems, logger.flush[f].amount),
           !.flushed = logger.flushed \cup SeqRange(logger.flush[f].added),
           !.flush[f] = NoFlush,
           !.txns = Tail(logger.txns)]
    /\ UNCHANGED <<syncVars, opsVars, timeoutCall, heroes>>

\* _openDB() or the transaction of the flush fails (a key that exists, no space): the
\* error is logged (lines 137-138) and the queue is left as it is.
FlushFail(f) ==
    /\ logger.flush[f].pc \in {"open", "txn"}
    /\ logger' = [logger EXCEPT
           !.flush[f] = NoFlush,
           !.txns = SelectSeq(logger.txns, LAMBDA t : t # f)]
    /\ UNCHANGED <<syncVars, opsVars, timeoutCall, heroes>>

\* _removeItems(items) is called with items of an export, which are in the store or
\* in the queue (lines 190-191, 240), and awaits _openDB() (line 204).
RemoveItems(items) ==
    /\ logger.remove.pc = "idle"
    /\ items # {}
    /\ items \subseteq logger.logs \cup SeqRange(logger.queuedItems)
    /\ logger' = [logger EXCEPT
           !.remove = [pc |-> "open", items |-> items, deletes |-> {}],
           !.passed = logger.passed \cup items]
    /\ UNCHANGED <<syncVars, opsVars, timeoutCall, heroes>>

RECURSIVE RemoveFromQueue(_, _)
\* lines 208-215: the items that are queued are taken out of the queue
RemoveFromQueue(q, items) ==
    IF items = {} THEN q
    ELSE LET item == CHOOSE i \in items : TRUE
             queuedIdx == FindIndex(q, item)
         IN  RemoveFromQueue(IF queuedIdx = 0 THEN q ELSE Splice(q, queuedIdx, 1),
                             items \ {item})

\* The database is open: the items that are queued are taken out of the queue, the
\* others are deleted from the store in a transaction (lines 206-216).
RemoveRun ==
    /\ logger.remove.pc = "open"
    /\ logger' = [logger EXCEPT
           !.queuedItems = RemoveFromQueue(logger.queuedItems, logger.remove.items),
           !.remove.pc = "txn",
           !.remove.deletes = logger.remove.items \ SeqRange(logger.queuedItems),
           !.txns = Append(logger.txns, 0)]
    /\ UNCHANGED <<syncVars, opsVars, timeoutCall, heroes>>

\* The transaction of _removeItems commits (line 216).
RemoveCommit ==
    /\ logger.remove.pc = "txn"
    /\ Head(logger.txns) = 0
    /\ logger' = [logger EXCEPT
           !.logs = logger.logs \ logger.remove.deletes,
           !.remove = NoRemove,
           !.txns = Tail(logger.txns)]
    /\ UNCHANGED <<syncVars, opsVars, timeoutCall, heroes>>

\* _openDB() or the transaction of _removeItems fails: the call rejects (no catch).
RemoveFail ==
    /\ logger.remove.pc \in {"open", "txn"}
    /\ logger' = [logger EXCEPT
           !.remove = NoRemove,
           !.txns = SelectSeq(logger.txns, LAMBDA t : t # 0)]
    /\ UNCHANGED <<syncVars, opsVars, timeoutCall, heroes>>

----------------------------------------------------------------------------
\* Heroes (src/unnamed/part_003, lines 19-100). A Map is a sequence of members in
\* insertion order, without two members of one user id; a member is a record of its
\* userId and name.

MaxChanged == 1
MaxCount == 2

UserIds == {"u1", "u2"}
NameOrder == <<"Alice", "Bob">>
Names == {NameOrder[k] : k \in 1..Len(NameOrder)}
Members == [userId : UserIds, name : Names]

\* a.name.localeCompare(b.name) <= 0
NameRank(n) == CHOOSE k \in 1..Len(NameOrder) : NameOrder[k] = n

MapHas(ms, u) == \E k \in 1..Len(ms) : ms[k].userId = u
MapDelete(ms, u) == SelectSeq(ms, LAMBDA m : m.userId # u)
MapSet(ms, member) ==
    IF MapHas(ms, member.userId)
    THEN [k \in 1..Len(ms) |-> IF ms[k].userId = member.userId THEN member ELSE ms[k]]
    ELSE Append(ms, member)
MapKeys(ms) == {ms[k].userId : k \in 1..Len(ms)}

\* newHeroes.indexOf(userId) !== -1
Includes(newHeroes, u) == \E k \in 1..Len(newHeroes) : newHeroes[k] = u

RECURSIVE Join(_, _)
\* names.join(sep), as the sequence of its pieces
Join(names, sep) ==
    IF Len(names) = 0 THEN <<>>
    ELSE IF Len(names) = 1 THEN names
    ELSE <<Head(names), sep>> \o Join(Tail(names), sep)

MemberNames(ms) == [k \in 1..Len(ms) |-> ms[k].name]

\* The values a room name takes: a string (text, and the number it ends on with
\* "and N others"), null, undefined (never assigned), and the TypeError thrown on
\* reading sortedMembers[0].name of an empty array.
NameString(text, others) == [kind |-> "string", text |-> text, others |-> others]
NameNull == [kind |-> "null", text |-> <<>>, others |-> 0]
NameUndefined == [kind |-> "undefined", text |-> <<>>, others |-> 0]
NameTypeError == [kind |-> "TypeError", text |-> <<>>, others |-> 0]

\* calculateRoomName(sortedMembers, summary), lines 19-35
calculateRoomName(sortedMembers, summary) ==
    LET countWithoutMe == summary.joinCount + summary.inviteCount - 1
        n == Len(sortedMembers)
    IN  IF n >= countWithoutMe
        THEN IF n > 1
             THEN NameString(Join(MemberNames(SubSeq(sortedMembers, 1, n - 1)), ", ")
                                 \o <<" and ", sortedMembers[n].name>>, 0)
             ELSE IF n = 0 THEN NameTypeError
             ELSE NameString(<<sortedMembers[1].name>>, 0)
        ELSE IF n < countWithoutMe
        THEN NameString(Join(MemberNames(sortedMembers), ", ") \o <<" and ", " others">>,
                        countWithoutMe)
        ELSE NameNull

\* sorted with m inserted behind the members whose name does not come after m's
InsertByName(sorted, m) ==
    LET k == Cardinality({j \in 1..Len(sorted) :
                              NameRank(sorted[j].name) <= NameRank(m.name)})
    IN  SubSeq(sorted, 1, k) \o <<m>> \o SubSeq(sorted, k + 1, Len(sorted))

RECURSIVE SortByName(_)
\* Array.from(this._members.values()).sort(...) (line 84); the sort is stable
SortByName(ms) ==
    IF ms = <<>> THEN <<>>
    ELSE InsertByName(SortByName(SubSeq(ms, 1, Len(ms) - 1)), ms[Len(ms)])

\* A Heroes object after the constructor (lines 38-41): no members; _roomName is not
\* assigned. pc: "idle", or "calculated" when calculateChanges has returned changes
\* that are not applied yet; changes: the changes returned; newHeroes: history, the
\* argument of that call; threw: the last applyChanges threw.
NoChanges == [updatedHeroMembers |-> <<>>, removedUserIds |-> <<>>]
NewHeroes == [pc |-> "idle", members |-> <<>>, roomName |-> NameUndefined,
              changes |-> NoChanges, newHeroes |-> <<>>, threw |-> FALSE]

InitLib == timeoutCall = NoTimeoutCall /\ heroes = NewHeroes /\ logger = NewLogger

\* lines 53-57: the user ids of the members that are not among the new heroes
RemovedUserIds(ms, newHeroes) ==
    LET gone == SelectSeq(ms, LAMBDA m : ~Includes(newHeroes, m.userId))
    IN  [k \in 1..Len(gone) |-> gone[k].userId]

\* if (this._members.has(member.userId) || newHeroes.indexOf(member.userId) !== -1)
TakesChange(ms, newHeroes, member) ==
    MapHas(ms, member.userId) \/ Includes(newHeroes, member.userId)

RECURSIVE UpdatedFromChanges(_, _, _, _)
\* lines 59-63, from the changed members that are left
UpdatedFromChanges(updated, ms, newHeroes, changedMembers) ==
    IF changedMembers = <<>> THEN updated
    ELSE UpdatedFromChanges(
             IF TakesChange(ms, newHeroes, Head(changedMembers))
             THEN MapSet(updated, Head(changedMembers)) ELSE updated,
             ms, newHeroes, Tail(changedMembers))

RECURSIVE LoadedFromStorage(_, _, _, _)
\* lines 65-73, from the new heroes that are left; stored[userId] is the name of the
\* member that txn.roomMembers.get finds, or "undefined"
LoadedFromStorage(updated, ms, userIds, stored) ==
    IF userIds = <<>> THEN updated
    ELSE LET userId == Head(userIds)
         IN  LoadedFromStorage(
                 IF ~MapHas(ms, userId) /\ ~MapHas(updated, userId)
                    /\ stored[userId] # "undefined"
                 THEN MapSet(updated, [userId |-> userId, name |-> stored[userId]])
                 ELSE updated,
                 ms, Tail(userIds), stored)

\* calculateChanges(newHeroes, changedMembers, txn), lines 49-75
calculateChanges(ms, newHeroes, changedMembers, stored) ==
    [updatedHeroMembers |->
         LoadedFromStorage(UpdatedFromChanges(<<>>, ms, newHeroes, changedMembers),
                           ms, newHeroes, stored),
     removedUserIds |-> RemovedUserIds(ms, newHeroes)]

RECURSIVE DeleteAll(_, _)
\* lines 78-80
DeleteAll(ms, userIds) ==
    IF userIds = <<>> THEN ms ELSE DeleteAll(MapDelete(ms, Head(userIds)), Tail(userIds))

RECURSIVE SetAll(_, _)
\* lines 81-83
SetAll(ms, members) ==
    IF members = <<>> THEN ms ELSE SetAll(MapSet(ms, Head(members)), Tail(members))

\* the members after lines 78-83 of applyChanges
MembersAfter(ms, changes) ==
    SetAll(DeleteAll(ms, changes.removedUserIds), changes.updatedHeroMembers)

\* applyChanges({updatedHeroMembers, removedUserIds}, summary), lines 77-86: when
\* calculateRoomName throws, the members are changed and _roomName is not assigned.
applyChanges(h, changes, summary) ==
    LET ms == MembersAfter(h.members, changes)
        name == calculateRoomName(SortByName(ms), summary)
    IN  [h EXCEPT !.pc = "idle", !.members = ms,
                  !.roomName = IF name = NameTypeError THEN h.roomName ELSE name,
                  !.threw = (name = NameTypeError)]

HeroLists == {<<>>} \cup {<<u>> : u \in UserIds}
                 \cup {h \in UserIds \X UserIds : h[1] # h[2]}
ChangedLists == UNION {[1..n -> Members] : n \in 0..MaxChanged}
Storages == [UserIds -> Names \cup {"undefined"}]
Summaries == [joinCount : 0..MaxCount, inviteCount : 0..MaxCount]

\* The caller awaits calculateChanges(newHeroes, changedMembers, txn).
CalculateChanges(newHeroes, changedMembers, stored) ==
    /\ heroes.pc = "idle"
    /\ heroes' = [heroes EXCEPT
           !.pc = "calculated", !.newHeroes = newHeroes,
           !.changes = calculateChanges(heroes.members, newHeroes, changedMembers, stored)]
    /\ UNCHANGED <<syncVars, opsVars, timeoutCall, logger>>

\* The caller passes the changes to applyChanges.
ApplyChanges(summary) ==
    /\ heroes.pc = "calculated"
    /\ heroes' = applyChanges(heroes, heroes.changes, summary)
    /\ UNCHANGED <<syncVars, opsVars, timeoutCall, logger>>

InitHeroes ==
    /\ status = "Stopped"
    /\ error = "null"
    /\ currentRequest = 0
    /\ loops = [i \in 1..1 |-> NoLoop]
    /\ lastCall = "none"
    /\ ranges = <<<<0, 99>>>>
    /\ roomIndexToRoomId = [k \in {} |-> "undefined"]
    /\ call = [pc |-> "idle", indexToRoomID |-> [k \in {} |-> "undefined"],
               roomUpdates |-> <<>>, gapIndex |-> -1, i |-> 0, seen |-> {}]
    /\ InitLib

NextHeroes ==
    \/ \E newHeroes \in HeroLists, changedMembers \in ChangedLists, stored \in Storages :
           CalculateChanges(newHeroes, changedMembers, stored)
    \/ \E summary \in Summaries : ApplyChanges(summary)

SpecHeroes == InitHeroes /\ [][NextHeroes]_vars

\* abortOnTimeout on a request of its own.
InitTimeout ==
    /\ status = "Stopped"
    /\ error = "null"
    /\ currentRequest = 0
    /\ loops = [i \in 1..1 |-> NoLoop]
    /\ lastCall = "none"
    /\ ranges = <<<<0, 99>>>>
    /\ roomIndexToRoomId = [k \in {} |-> "undefined"]
    /\ call = [pc |-> "idle", indexToRoomID |-> [k \in {} |-> "undefined"],
               roomUpdates |-> <<>>, gapIndex |-> -1, i |-> 0, seen |-> {}]
    /\ InitLib

NextTimeout ==
    \/ \E ms \in TimeoutAmounts : CallAbortOnTimeout(ms)
    \/ Elapse
    \/ \E v \in ResponseValues : Settle("resolved", v)
    \/ \E e \in ResponseErrors : Settle("rejected", e)
    \/ RunJob

SpecTimeout == InitTimeout /\ [][NextTimeout]_vars

\* An IDBLogger of its own.
InitLogger ==
    /\ status = "Stopped"
    /\ error = "null"
    /\ currentRequest = 0
    /\ loops = [i \in 1..1 |-> NoLoop]
    /\ lastCall = "none"
    /\ ranges = <<<<0, 99>>>>
    /\ roomIndexToRoomId = [k \in {} |-> "undefined"]
    /\ call = [pc |-> "idle", indexToRoomID |-> [k \in {} |-> "undefined"],
               roomUpdates |-> <<>>, gapIndex |-> -1, i |-> 0, seen |-> {}]
    /\ InitLib

NextLogger ==
    \/ PersistItem
    \/ \E f \in FlushIds : TryFlush(f)
    \/ \E f \in FlushIds : FlushAdd(f)
    \/ \E f \in FlushIds : FlushCommit(f)
    \/ \E f \in FlushIds : FlushFail(f)
    \/ \E items \in SUBSET ItemIds : RemoveItems(items)
    \/ RemoveRun
    \/ RemoveCommit
    \/ RemoveFail

SpecLogger == InitLogger /\ [][NextLogger]_vars

----------------------------------------------------------------------------
\* The engine after the constructor (lines 118-129), with room for n loop invocations.
InitFor(n) ==
    /\ status = "Stopped"
    /\ error = "null"
    /\ currentRequest = 0
    /\ loops = [i \in 1..n |-> NoLoop]
    /\ lastCall = "none"
    /\ ranges = <<<<0, 99>>>>
    /\ roomIndexToRoomId = EmptyMap
    /\ call = NoCall
    /\ InitLib

LoopIds == DOMAIN loops

\* if (this.status.get() !== SyncStatus.Stopped) return (line 134)
AlreadySyncing(st) == st # "Stopped"

StartResetsStatus ==
    /\ lastCall' = "start" /\ UNCHANGED <<opsVars, libVars>>
    /\ IF AlreadySyncing(status)
       THEN /\ status' = "InitialSync"
            /\ UNCHANGED <<error, currentRequest, loops>>
       ELSE /\ \E i \in LoopIds :
                  /\ loops[i].pc = "none"
                  /\ \A j \in LoopIds : j < i => loops[j].pc # "none"
                  /\ loops' = [loops EXCEPT ![i] = LoopTop(NoLoop, "InitialSync")]
            /\ error' = "null"
            /\ status' = "InitialSync"
            /\ UNCHANGED currentRequest

\* start(): lines 133-140. The call of syncLoop runs synchronously up to its first await.
Start ==
    /\ lastCall' = "start" /\ UNCHANGED <<opsVars, libVars>>
    /\ IF AlreadySyncing(status)
       THEN UNCHANGED <<status, error, currentRequest, loops>>
       ELSE /\ \E i \in LoopIds :
                  /\ loops[i].pc = "none"
                  /\ \A j \in LoopIds : j < i => loops[j].pc # "none"
                  /\ loops' = [loops EXCEPT ![i] = LoopTop(NoLoop, "InitialSync")]
            /\ error' = "null"
            /\ status' = "InitialSync"
            /\ UNCHANGED currentRequest

\* abort() of the request this.currentRequest refers to; no effect on a settled request.
Abort(ls, r) ==
    IF r # 0 /\ ls[r].req = "flight" THEN [ls EXCEPT ![r].req = "aborted"] ELSE ls

\* stop(): lines 397-406.
Stop ==
    /\ lastCall' = "stop" /\ UNCHANGED <<opsVars, libVars>>
    /\ IF status = "Stopped"
       THEN UNCHANGED <<status, error, currentRequest, loops>>
       ELSE /\ status' = "Stopped"
            /\ loops' = Abort(loops, currentRequest)
            /\ currentRequest' = 0
            /\ UNCHANGED error

\* sleep(100) elapses; the request is issued with `pos` and the body built at the top
\* of the iteration, and stored in this.currentRequest (lines 177-180). The transport
\* returns the request handle synchronously, the loop then suspends in response().
IssueRequest(i) ==
    /\ loops[i].pc = "sleep"
    /\ loops' = [loops EXCEPT ![i].pc = "request", ![i].req = "flight",
                              ![i].reqPos = loops[i].pos,
                              ![i].reqSticky = loops[i].isFirstSync]
    /\ currentRequest' = i
    /\ lastCall' = "loop" /\ UNCHANGED <<opsVars, libVars>>
    /\ UNCHANGED <<status, error>>

ReceiveResponseAdvancesPos(i, p, bad) ==
    /\ loops[i].pc = "request"
    /\ loops[i].req = "flight"
    /\ loops' = [loops EXCEPT ![i].pc = "process", ![i].req = "none",
                              ![i].backoffCounter = 0, ![i].consecFail = 0,
                              ![i].pos = p,
                              ![i].resp = p, ![i].respBad = bad]
    /\ lastCall' = "loop" /\ UNCHANGED <<opsVars, libVars>>
    /\ UNCHANGED <<status, error, currentRequest>>

\* response() resolves with a body whose pos is p; backoffCounter = 0 and
\* processResponse(resp) is called and awaited (lines 180-184). bad: the body is one
\* on which processResponse throws (e.g. no ops array).
ReceiveResponse(i, p, bad) ==
    /\ loops[i].pc = "request"
    /\ loops[i].req = "flight"
    /\ loops' = [loops EXCEPT ![i].pc = "process", ![i].req = "none",
                              ![i].backoffCounter = 0, ![i].consecFail = 0,
                              ![i].resp = p, ![i].respBad = bad]
    /\ lastCall' = "loop" /\ UNCHANGED <<opsVars, libVars>>
    /\ UNCHANGED <<status, error, currentRequest>>

PosAdvancedBeforeProcess(l) == l.resp

\* pos once the await of processResponse has settled: pos = resp.pos (line 186) is
\* skipped when processResponse threw.
PosAfterProcess(l) == IF l.respBad THEN l.pos ELSE l.resp

\* The await of processResponse settles (lines 184-189, or the catch branch when it threw).
FinishProcess(i) ==
    /\ loops[i].pc = "process"
    /\ LET l  == loops[i]
           st == IF ~l.respBad /\ l.isFirstSync THEN "Syncing" ELSE status
       IN  /\ status' = st
           /\ loops' = [loops EXCEPT ![i] =
                  IF l.respBad
                  THEN CatchError([l EXCEPT !.pos = PosAfterProcess(l)], "fail")
                  ELSE LoopTop([l EXCEPT !.pos = PosAfterProcess(l),
                                         !.lastOutcome = "ok"], st)]
    /\ lastCall' = "loop" /\ UNCHANGED <<opsVars, libVars>>
    /\ UNCHANGED <<error, currentRequest>>

\* response() rejects with an error that is not an AbortError (lines 199-209).
FailRequest(i, nFail) ==
    /\ loops[i].pc = "request"
    /\ loops[i].req = "flight"
    /\ loops[i].consecFail < nFail
    /\ loops' = [loops EXCEPT ![i] = CatchError(loops[i], "fail")]
    /\ lastCall' = "loop" /\ UNCHANGED <<opsVars, libVars>>
    /\ UNCHANGED <<status, error, currentRequest>>

\* The request of loop i is aborted by another holder of the handle than stop() (the
\* transport; line 191: "we can be aborted if the ranges change").
AbortRequest(i) ==
    /\ loops[i].pc = "request"
    /\ loops[i].req = "flight"
    /\ loops' = [loops EXCEPT ![i].req = "aborted"]
    /\ lastCall' = "abort" /\ UNCHANGED <<opsVars, libVars>>
    /\ UNCHANGED <<status, error, currentRequest>>

\* response() of an aborted request rejects with an AbortError (lines 192-198).
AbortError(i) ==
    /\ loops[i].pc = "request"
    /\ loops[i].req = "aborted"
    /\ loops' = [loops EXCEPT ![i] = CatchAbort(loops[i], status)]
    /\ lastCall' = "loop" /\ UNCHANGED <<opsVars, libVars>>
    /\ UNCHANGED <<status, error, currentRequest>>

\* The backoff sleep elapses and the while condition is evaluated again (lines 209, 158).
WakeBackoff(i) ==
    /\ loops[i].pc = "backoff"
    /\ loops' = [loops EXCEPT ![i] = LoopTop(loops[i], status)]
    /\ lastCall' = "loop" /\ UNCHANGED <<opsVars, libVars>>
    /\ UNCHANGED <<status, error, currentRequest>>

Init == InitFor(MaxLoops)

Next ==
    \/ Start
    \/ Stop
    \/ \E i \in LoopIds : IssueRequest(i)
    \/ \E i \in LoopIds, p \in 1..MaxPos, bad \in BOOLEAN : ReceiveResponse(i, p, bad)
    \/ \E i \in LoopIds : FinishProcess(i)
    \/ \E i \in LoopIds : FailRequest(i, MaxFail)
    \/ \E i \in LoopIds : AbortRequest(i)
    \/ \E i \in LoopIds : AbortError(i)
    \/ \E i \in LoopIds : WakeBackoff(i)

Spec == Init /\ [][Next]_vars

InitLoop == InitFor(LoopLoops)

NextLoop ==
    \/ Start
    \/ Stop
    \/ \E i \in LoopIds : IssueRequest(i)
    \/ \E i \in LoopIds, p \in 1..LoopPos, bad \in BOOLEAN : ReceiveResponse(i, p, bad)
    \/ \E i \in LoopIds : FinishProcess(i)
    \/ \E i \in LoopIds : FailRequest(i, LoopFail)
    \/ \E i \in LoopIds : AbortRequest(i)
    \/ \E i \in LoopIds : AbortError(i)
    \/ \E i \in LoopIds : WakeBackoff(i)

SpecLoop == InitLoop /\ [][NextLoop]_vars

InitFair == InitFor(FairLoops)

NextFair ==
    \/ Start
    \/ Stop
    \/ \E i \in LoopIds : IssueRequest(i)
    \/ \E i \in LoopIds, p \in 1..FairPos, bad \in BOOLEAN : ReceiveResponse(i, p, bad)
    \/ \E i \in LoopIds : FinishProcess(i)
    \/ \E i \in LoopIds : FailRequest(i, FairFail)
    \/ \E i \in LoopIds : AbortRequest(i)
    \/ \E i \in LoopIds : AbortError(i)
    \/ \E i \in LoopIds : WakeBackoff(i)

\* The timers of sleep() fire and the microtask of a settled await runs, so each loop
\* step that stays enabled is eventually taken; the transport settles every request.
Fairness ==
    \A i \in 1..FairLoops :
        /\ WF_vars(IssueRequest(i))
        /\ WF_vars(FinishProcess(i))
        /\ WF_vars(AbortError(i))
        /\ WF_vars(WakeBackoff(i))
        /\ WF_vars(\E p \in 1..FairPos : ReceiveResponse(i, p, FALSE))

SpecFair == InitFair /\ [][NextFair]_vars /\ Fairness

\* The maps and windows processOps is applied to.
StoredMaps == UNION {[d -> RoomIds] : d \in SUBSET Indexes}
Windows == {w \in Indexes \X Indexes : w[1] <= w[2]}
\* Windows in increasing order that do not overlap: indexInRange depends only on the
\* indexes the windows cover.
RangeLists ==
    {rs \in UNION {[1..n -> Windows] : n \in 1..MaxRanges} :
        \A n \in 1..(Len(rs) - 1) : rs[n][2] < rs[n + 1][1]}

InitOps ==
    /\ status = "Stopped"
    /\ error = "null"
    /\ currentRequest = 0
    /\ loops = [i \in 1..1 |-> NoLoop]
    /\ lastCall = "none"
    /\ ranges \in RangeLists
    /\ roomIndexToRoomId \in StoredMaps
    /\ call = NoCall
    /\ InitLib

NextOps ==
    \/ BeginProcessOps
    \/ \E op \in Ops : ProcessOp(op)
    \/ ReturnProcessOps
    \/ ReturnProcessResponse

SpecOps == InitOps /\ [][NextOps]_vars

\* Batches whose room payloads may lack a room_id. A payload is known by its room_id,
\* so that the payload without one is the payload "undefined": it is an object, and
\* passes the test of line 276, but its r.room_id reads undefined.
Payloads == RoomIds \cup {"undefined"}
SyncAt(lo, hi, rooms) ==
    [op |-> "SYNC", has |-> {"range", "rooms"}, range |-> <<lo, hi>>, rooms |-> rooms,
     index |-> 0, room |-> "a"]
PayloadOps ==
    {SyncAt(lo, hi, rooms) : lo \in Indexes, hi \in Indexes,
                             rooms \in UNION {[1..n -> Payloads] : n \in 0..MaxRooms}}
    \cup {InsertAt(i, r) : i \in Indexes, r \in Payloads}
    \cup {UpdateAt(i, r) : i \in Indexes, r \in Payloads}
    \cup {DeleteAt(i) : i \in Indexes}

NextPayload ==
    \/ BeginProcessOps
    \/ \E op \in PayloadOps : ProcessOp(op)
    \/ ReturnProcessOps
    \/ ReturnProcessResponse

SpecPayload == InitOps /\ [][NextPayload]_vars

\* The worked example of lines 428-432 (SYNC 0 2 a b c; SYNC 6 8 d e f; DELETE 7;
\* INSERT 0 ..): the map of the two SYNCs, with the windows [0, 5] and [6, 8], and
\* batches of DELETE and INSERT ops on the indexes 0..8.
ExampleMap == (0 :> "a") @@ (1 :> "b") @@ (2 :> "c") @@ (6 :> "d") @@ (7 :> "e") @@ (8 :> "f")
ExampleRanges == <<<<0, 5>>, <<6, 8>>>>
ExampleOps == {DeleteAt(i) : i \in 0..8} \cup {InsertAt(i, "g") : i \in 0..8}

InitExample ==
    /\ status = "Stopped"
    /\ error = "null"
    /\ currentRequest = 0
    /\ loops = [i \in 1..1 |-> NoLoop]
    /\ lastCall = "none"
    /\ ranges = ExampleRanges
    /\ roomIndexToRoomId = ExampleMap
    /\ call = NoCall
    /\ InitLib

NextExample ==
    \/ BeginProcessOps
    \/ \E op \in ExampleOps : ProcessOpWithin(op, ExampleLen)
    \/ ReturnProcessOps
    \/ ReturnProcessResponse

SpecExample == InitExample /\ [][NextExample]_vars

\* Batches of DELETE and INSERT ops on the indexes 0..ShiftIndex, applied to every
\* map on these indexes under every list of windows.
ShiftIndexes == 0..ShiftIndex
ShiftMaps == UNION {[d -> RoomIds] : d \in SUBSET ShiftIndexes}
ShiftWindows == {w \in ShiftIndexes \X ShiftIndexes : w[1] <= w[2]}
ShiftRangeLists ==
    {rs \in UNION {[1..n -> ShiftWindows] : n \in 1..ShiftRanges} :
        \A n \in 1..(Len(rs) - 1) : rs[n][2] < rs[n + 1][1]}
ShiftBatchOps ==
    {DeleteAt(i) : i \in ShiftIndexes} \cup {InsertAt(i, r) : i \in ShiftIndexes, r \in RoomIds}

InitShift ==
    /\ status = "Stopped"
    /\ error = "null"
    /\ currentRequest = 0
    /\ loops = [i \in 1..1 |-> NoLoop]
    /\ lastCall = "none"
    /\ ranges \in ShiftRangeLists
    /\ roomIndexToRoomId \in ShiftMaps
    /\ call = NoCall
    /\ InitLib

NextShift ==
    \/ BeginProcessOps
    \/ \E op \in ShiftBatchOps : ProcessOpWithin(op, ShiftOps)
    \/ ReturnProcessOps
    \/ ReturnProcessResponse

SpecShift == InitShift /\ [][NextShift]_vars

----------------------------------------------------------------------------
\* Shorthands for the properties.

Running == {"InitialSync", "Syncing"}
Alive == {i \in LoopIds : loops[i].pc # "none"}
InFlight == {i \in LoopIds : loops[i].req = "flight"}
Reconciling == {i \in LoopIds : loops[i].pc = "process"}
\* the step is one of loop i that moves it from pc a to pc b
Moves(i, a, b) == loops[i].pc = a /\ loops'[i].pc = b

----------------------------------------------------------------------------
\* C1: status changes only Stopped -> InitialSync by start(), InitialSync -> Syncing
\* by the loop on a successful response, and InitialSync or Syncing -> Stopped by
\* stop(); once stopped, status stays Stopped until the next start().
C1_StatusTransitions ==
    [][status' # status =>
          \/ status = "Stopped" /\ status' = "InitialSync" /\ lastCall' = "start" /\ UNCHANGED opsVars
          \/ status = "InitialSync" /\ status' = "Syncing" /\ lastCall' = "loop" /\ UNCHANGED opsVars
          \/ status \in Running /\ status' = "Stopped" /\ lastCall' = "stop"]_vars

\* C2: at most one sync loop is alive, at most one request is in flight and at most
\* one reconciliation pass is executing at any time.
C2_SingleLoop ==
    /\ Cardinality(Alive) <= 1
    /\ Cardinality(InFlight) <= 1
    /\ Cardinality(Reconciling) <= 1

\* C3: pos becomes the response's pos when the processing of a received response
\* completes; a failed request, a cancelled request and a response whose processing
\* throws leave pos as it was, which is the pos the request carried; pos does not
\* change while the loop sleeps, and the next request carries it.
C3_PosAdvance ==
    [][\A i \in LoopIds :
          LET l == loops[i]  m == loops'[i] IN
          /\ (Moves(i, "process", "sleep") /\ ~l.respBad) => m.pos = l.resp
          /\ (Moves(i, "process", "backoff")) => (l.respBad /\ m.pos = l.pos /\ m.pos = l.reqPos)
          /\ (Moves(i, "process", "sleep")) => ~l.respBad
          /\ Moves(i, "request", "backoff") => (m.pos = l.pos /\ m.pos = l.reqPos)
          /\ Moves(i, "request", "sleep") => (m.pos = l.pos /\ m.pos = l.reqPos)
          /\ Moves(i, "request", "process") => m.pos = l.pos
          /\ Moves(i, "backoff", "sleep") => m.pos = l.pos
          /\ Moves(i, "sleep", "request") => (m.pos = l.pos /\ m.reqPos = l.pos)]_vars

\* A retry is in flight after a failure that followed a success: it carries the
\* position of the successful response.
C3_Witness ==
    \E i \in LoopIds :
        /\ loops[i].pc = "request"
        /\ loops[i].lastOutcome = "fail"
        /\ loops[i].reqPos # Undefined
        /\ loops[i].reqPos = loops[i].pos

\* C4: stop() in a running state sets status to Stopped, leaves no request in flight
\* and clears the request handle; stop() while Stopped changes nothing.
C4_StopAborts ==
    [][lastCall' = "stop" =>
          IF status = "Stopped"
          THEN UNCHANGED <<status, error, currentRequest, loops>>
          ELSE /\ status' = "Stopped"
               /\ currentRequest' = 0
               /\ \A i \in LoopIds : loops'[i].req # "flight"]_vars

\* C5: start() while status is InitialSync or Syncing changes nothing (status, error,
\* the pos and every other local of every loop) and launches no loop; a loop is
\* launched only by start() from Stopped.
C5_StartNoop ==
    [][/\ (lastCall' = "start" /\ status \in Running) =>
              UNCHANGED <<status, error, currentRequest, loops>>
       /\ \A i \in LoopIds :
              Moves(i, "none", "sleep") =>
                  (lastCall' = "start" /\ status = "Stopped" /\ status' = "InitialSync")]_vars

\* start() has just been called while a loop is syncing with a position.
C5_Witness ==
    /\ lastCall = "start"
    /\ status = "Syncing"
    /\ \E i \in LoopIds : loops[i].pc # "none" /\ loops[i].pos # Undefined

\* C6: the backoff sleep after the k-th consecutive failure (counted since the last
\* received response, cancellations not counted) is 2, 4, 8, 16, 32, 32, ... seconds;
\* the counter never exceeds 5 and is zero once a response has been received.
C6_Backoff ==
    \A i \in LoopIds :
        LET l == loops[i] IN
        /\ l.backoffCounter <= 5
        /\ l.pc = "process" => l.backoffCounter = 0
        /\ l.pc = "backoff" =>
              /\ l.consecFail >= 1
              /\ l.secs = <<2, 4, 8, 16, 32>>[IF l.consecFail < 5 THEN l.consecFail ELSE 5]

\* The loop sleeps after its sixth consecutive failure.
C6_Witness ==
    \E i \in LoopIds : loops[i].pc = "backoff" /\ loops[i].consecFail = 6

\* C7: an AbortError while status is not Stopped takes the loop straight to the next
\* iteration (the fixed pre-request sleep, not a backoff sleep) with pos and the
\* backoff counter unchanged, and the re-issued request carries that pos.
C7_AbortRetries ==
    [][\A i \in LoopIds :
          LET l == loops[i]  m == loops'[i] IN
          /\ (l.pc = "request" /\ l.req = "aborted" /\ m.pc # "request" /\ status # "Stopped") =>
                 /\ m.pc = "sleep"
                 /\ m.pos = l.reqPos
                 /\ m.backoffCounter = l.backoffCounter
                 /\ m.consecFail = l.consecFail
                 /\ m.lastOutcome = "abort"
          /\ (Moves(i, "sleep", "request") /\ l.lastOutcome = "abort") =>
                 /\ m.reqPos = l.pos
                 /\ m.backoffCounter = l.backoffCounter]_vars

\* A request has been re-issued after a cancellation, with a position and with the
\* backoff counter of an earlier failure still in place.
C7_Witness ==
    \E i \in LoopIds :
        /\ loops[i].pc = "request"
        /\ loops[i].lastOutcome = "abort"
        /\ loops[i].reqPos # Undefined
        /\ loops[i].backoffCounter = 1
        /\ status # "Stopped"

C9_StickyFirstOnly ==
    \A i \in LoopIds :
        loops[i].pc = "request" => (loops[i].reqSticky <=> loops[i].lastOutcome = "none")

\* C9 amended: a request has the sticky parameters exactly when status was
\* InitialSync when its iteration started.
C9_StickyWhileInitial ==
    [][\A i \in LoopIds :
          LET l == loops[i]  m == loops'[i] IN
          /\ (l.pc # "sleep" /\ m.pc = "sleep") => (m.isFirstSync <=> status' = "InitialSync")
          /\ (l.pc = "sleep" /\ m.pc = "sleep") => m.isFirstSync = l.isFirstSync
          /\ Moves(i, "sleep", "request") => m.reqSticky = l.isFirstSync
          /\ (l.pc = "request" /\ m.pc = "request") => m.reqSticky = l.reqSticky]_vars

\* The retry of a failed first request is in flight and has the sticky parameters.
C9_Witness ==
    \E i \in LoopIds :
        /\ loops[i].pc = "request"
        /\ loops[i].lastOutcome = "fail"
        /\ loops[i].reqSticky
        /\ loops[i].pos = Undefined

\* C10: processOps never modifies this.roomIndexToRoomId: during the call and after
\* it the stored map is the one processOps was entered with, whatever the local copy
\* has become.
C10_StoredMapUntouched ==
    [][roomIndexToRoomId' = roomIndexToRoomId]_vars

\* processOps has returned a map that differs from the stored one, after a batch
\* with a skipped op (a malformed one or an INSERT without gap).
C10_Witness ==
    /\ call.pc = "returned"
    /\ call.indexToRoomID # roomIndexToRoomId
    /\ call.seen \cap {"malformed", "nogap"} # {}

----------------------------------------------------------------------------
\* Shorthands for the properties of processOps.

\* the locals of processOps when its for loop is entered
Begun == [NoCall EXCEPT !.pc = "loop", !.indexToRoomID = roomIndexToRoomId]
\* the locals after the iteration on op, from the locals c
After(c, op) == [ApplyOp(c, op, ranges) EXCEPT !.i = c.i + 1]
\* the for loop is at an op of a batch of at most n ops
CanStep(n) == call.pc = "loop" /\ call.i < n
\* the maps m and n agree on key j (both lack it, or both hold the same value)
SameAt(m, n, j) == (j \in DOMAIN m <=> j \in DOMAIN n) /\ Get(m, j) = Get(n, j)
Keys(m, n) == DOMAIN m \cup DOMAIN n \cup Indexes
Min(a, b) == IF a < b THEN a ELSE b
\* the indexes the shift loops of an INSERT at index visit with the gap at gap
\* (lines 321 and 329)
ShiftPath(gap, index) ==
    IF gap > index THEN (index + 1)..gap
    ELSE IF gap < index THEN gap..(index - 1)
    ELSE {}
\* the rooms the op contributes to the updates when the locals are c: the rooms of a
\* SYNC that fall into its range, the room of an applied INSERT and of an UPDATE
Contribution(c, op) ==
    IF ~WellFormed(op) THEN <<>>
    ELSE CASE op.op = "SYNC" ->
                 LET cnt == Min(Len(op.rooms), op.range[2] - op.range[1] + 1)
                 IN  SubSeq(op.rooms, 1, IF cnt < 0 THEN 0 ELSE cnt)
           [] op.op = "INSERT" ->
                 IF Truthy(Get(c.indexToRoomID, op.index)) /\ c.gapIndex < 0
                 THEN <<>>
                 ELSE <<op.room>>
           [] op.op = "UPDATE" -> <<op.room>>
           [] OTHER -> <<>>
\* the room ids the map m holds at the indexes inside the windows rs
RoomsInRange(m, rs) == {m[j] : j \in {k \in DOMAIN m : indexInRange(rs, k) /\ Truthy(m[k])}}
\* op is a well-formed INSERT at an index that is occupied, while there is a gap
ShiftsAt(c, op) ==
    /\ op.op = "INSERT" /\ WellFormed(op)
    /\ Truthy(Get(c.indexToRoomID, op.index))
    /\ c.gapIndex >= 0

----------------------------------------------------------------------------
\* C11: when processResponse returns, the stored index -> room id map is the map
\* processOps produced from the response's ops and the map held before, so the next
\* response is reconciled on top of it.
C11_MapCarriedOver ==
    [][(call.pc = "returned" /\ call'.pc = "idle") =>
           roomIndexToRoomId' = call.indexToRoomID]_vars

C13_Invalidate ==
    CanStep(MaxOps) =>
        \A op \in Ops :
            (op.op = "INVALIDATE" /\ WellFormed(op)) =>
                LET a == op.range[1]
                    b == op.range[2]
                    c == After(call, op)
                IN  /\ \A j \in Keys(call.indexToRoomID, c.indexToRoomID) :
                           IF a <= j /\ j <= b
                           THEN j \notin DOMAIN c.indexToRoomID
                           ELSE SameAt(call.indexToRoomID, c.indexToRoomID, j)
                    /\ c.roomUpdates = call.roomUpdates
                    /\ After(c, op) = [c EXCEPT !.i = c.i + 1]

\* The same INVALIDATE over [0, 1] has been applied twice to a map that had a room
\* at index 0 and none at index 1.
C13_Witness ==
    /\ call.pc = "loop" /\ call.i = 2
    /\ DOMAIN roomIndexToRoomId = {0}
    /\ call.indexToRoomID = EmptyMap
    /\ \E op \in Ops :
           /\ op.op = "INVALIDATE" /\ WellFormed(op) /\ op.range = <<0, 1>>
           /\ call = After(After(Begun, op), op)

\* C14 as stated: for every prior map, index i and room r, the batch
\* [DELETE i, INSERT i r] gives the same map and the same update list as the batch
\* [UPDATE i r], and shifts no other index.
C14_DeleteInsertIsUpdate ==
    \A i \in Indexes, r \in RoomIds :
        (call.pc = "loop" /\ call.i = 2 /\ call = After(After(Begun, DeleteAt(i)), InsertAt(i, r))) =>
            /\ call.indexToRoomID = After(Begun, UpdateAt(i, r)).indexToRoomID
            /\ call.roomUpdates = After(Begun, UpdateAt(i, r)).roomUpdates
            /\ \A j \in Keys(roomIndexToRoomId, call.indexToRoomID) \ {i} :
                   SameAt(roomIndexToRoomId, call.indexToRoomID, j)

\* C14 amended: the batch [DELETE i, INSERT i r] gives the same update list as the
\* batch [UPDATE i r] and shifts no other index; it leaves r at index i, which is the
\* map of [UPDATE i r] exactly when the prior map already held r at index i (UPDATE
\* does not write the map).
C14_DeleteInsertSetsRoom ==
    \A i \in Indexes, r \in RoomIds :
        (call.pc = "loop" /\ call.i = 2 /\ call = After(After(Begun, DeleteAt(i)), InsertAt(i, r))) =>
            /\ call.roomUpdates = After(Begun, UpdateAt(i, r)).roomUpdates
            /\ \A j \in Keys(roomIndexToRoomId, call.indexToRoomID) \ {i} :
                   SameAt(roomIndexToRoomId, call.indexToRoomID, j)
            /\ i \in DOMAIN call.indexToRoomID /\ call.indexToRoomID[i] = r
            /\ (call.indexToRoomID = After(Begun, UpdateAt(i, r)).indexToRoomID
                   <=> (i \in DOMAIN roomIndexToRoomId /\ roomIndexToRoomId[i] = r))

\* The batch [DELETE 0, INSERT 0 b] has been applied to a map with a at 0 and 1.
C14_Witness ==
    /\ call.pc = "loop" /\ call.i = 2
    /\ DOMAIN roomIndexToRoomId = {0, 1}
    /\ roomIndexToRoomId[0] = "a" /\ roomIndexToRoomId[1] = "a"
    /\ call = After(After(Begun, DeleteAt(0)), InsertAt(0, "b"))
    /\ call.indexToRoomID[0] = "b" /\ call.indexToRoomID[1] = "a"

\* C15 as stated: with the windows [[0, 5], [6, 8]] and the prior map
\* {0:a, 1:b, 2:c, 6:d, 7:e, 8:f}, processOps on [DELETE 7, INSERT 0 g] returns exactly
\* the map {0:g, 1:a, 2:b, 3:c, 6:d, 8:f}.
C15_ExampleAsStated ==
    (call.pc = "returned" /\ call.i = 2
        /\ [call EXCEPT !.pc = "loop"] = After(After(Begun, DeleteAt(7)), InsertAt(0, "g"))) =>
        call.indexToRoomID =
            (0 :> "g") @@ (1 :> "a") @@ (2 :> "b") @@ (3 :> "c") @@ (6 :> "d") @@ (8 :> "f")

\* C15 amended: on that input processOps returns the map in which every room before
\* the gap has moved up by one, {0:g, 1:a, 2:b, 3:c, 7:d, 8:f}, and in which the keys
\* 4, 5 and 6 are present and hold undefined (copied from the empty indexes 3, 4, 5).
C15_ExampleShiftsToGap ==
    (call.pc = "returned" /\ call.i = 2
        /\ [call EXCEPT !.pc = "loop"] = After(After(Begun, DeleteAt(7)), InsertAt(0, "g"))) =>
        call.indexToRoomID =
            (0 :> "g") @@ (1 :> "a") @@ (2 :> "b") @@ (3 :> "c") @@ (4 :> "undefined")
                @@ (5 :> "undefined") @@ (6 :> "undefined") @@ (7 :> "d") @@ (8 :> "f")

\* processOps has returned from the batch [DELETE 7, INSERT 0 g] of the example.
C15_Witness ==
    /\ call.pc = "returned" /\ call.i = 2
    /\ roomIndexToRoomId = ExampleMap /\ ranges = ExampleRanges
    /\ call.gapIndex = 7
    /\ call.roomUpdates = <<"g">>
    /\ Get(call.indexToRoomID, 0) = "g"
    /\ Get(call.indexToRoomID, 1) = "a"

\* C16 as stated: after the shift of an INSERT, every index on the shift path that
\* lies outside all tracked ranges holds no room id in the resulting map.
C16_OutOfRangeEmpty ==
    CanStep(ShiftOps) =>
        \A op \in ShiftBatchOps :
            ShiftsAt(call, op) =>
                \A j \in ShiftPath(call.gapIndex, op.index) :
                    ~indexInRange(ranges, j) =>
                        ~Truthy(Get(After(call, op).indexToRoomID, j))

\* C16 amended: the shift of an INSERT writes only into in-range positions: every
\* index on the shift path that lies outside all tracked ranges holds after the
\* INSERT what it held before it (no room id, if it held none).
C16_OutOfRangeNotWritten ==
    CanStep(ShiftOps) =>
        \A op \in ShiftBatchOps :
            ShiftsAt(call, op) =>
                \A j \in ShiftPath(call.gapIndex, op.index) :
                    ~indexInRange(ranges, j) =>
                        SameAt(call.indexToRoomID, After(call, op).indexToRoomID, j)

\* [DELETE 2, INSERT 0 b] has been applied to {0:a, 1:a, 2:a} with the windows
\* [0, 0] and [2, 2]: index 2 has taken the room of index 1, and index 1, outside the
\* windows, still has it.
C16_Witness ==
    /\ call.pc = "loop" /\ call.i = 2
    /\ ranges = <<<<0, 0>>, <<2, 2>>>>
    /\ roomIndexToRoomId = [j \in 0..2 |-> "a"]
    /\ call = After(After(Begun, DeleteAt(2)), InsertAt(0, "b"))
    /\ call.indexToRoomID = (0 :> "b") @@ (1 :> "a") @@ (2 :> "a")

\* C17: an INSERT at an index that is already occupied, in a batch where no DELETE
\* precedes it, is skipped: it leaves the map and the updates as they are and the loop
\* goes on to the next op. No DELETE precedes it exactly when there is no gap: the
\* gap is unset when the loop is entered and only a DELETE sets it.
C17_InsertWithoutGapSkipped ==
    /\ Begun.gapIndex < 0
    /\ CanStep(MaxOps) =>
           \A op \in Ops :
               LET c == After(call, op) IN
               /\ ~(op.op = "DELETE" /\ WellFormed(op)) => c.gapIndex = call.gapIndex
               /\ (op.op = "INSERT" /\ WellFormed(op)
                      /\ Truthy(Get(call.indexToRoomID, op.index)) /\ call.gapIndex < 0) =>
                      /\ c.indexToRoomID = call.indexToRoomID
                      /\ c.roomUpdates = call.roomUpdates
                      /\ c.pc = "loop" /\ c.i = call.i + 1

\* INSERT 0 b on a map with a at index 0 has been skipped and the INSERT 1 b after
\* it has been applied.
C17_Witness ==
    /\ call.pc = "loop" /\ call.i = 2
    /\ roomIndexToRoomId = (0 :> "a")
    /\ call = After(After(Begun, InsertAt(0, "b")), InsertAt(1, "b"))
    /\ "nogap" \in call.seen
    /\ call.indexToRoomID = (0 :> "a") @@ (1 :> "b")
    /\ call.roomUpdates = <<"b">>

\* C18: the gap of a DELETE is consumed by the INSERT that shifts into it: after
\* [DELETE d, INSERT i r] has shifted, a further INSERT at an occupied index finds no
\* gap and is skipped (map and updates as they were), and no room id other than the
\* deleted one is dropped from the in-range positions.
C18_GapConsumed ==
    \A d \in 0..8, i \in 0..8 :
        (/\ CanStep(ExampleLen) /\ call.i = 2
         /\ ShiftsAt(After(Begun, DeleteAt(d)), InsertAt(i, "g"))
         /\ call = After(After(Begun, DeleteAt(d)), InsertAt(i, "g"))) =>
            \A op \in ExampleOps :
                (op.op = "INSERT" /\ Truthy(Get(call.indexToRoomID, op.index))) =>
                    LET c == After(call, op) IN
                    /\ c.indexToRoomID = call.indexToRoomID
                    /\ c.roomUpdates = call.roomUpdates
                    /\ RoomsInRange(roomIndexToRoomId, ranges) \ {Get(roomIndexToRoomId, d)}
                           \subseteq RoomsInRange(c.indexToRoomID, ranges)

\* C19: an op that lacks a required field of its tag, or has an unknown tag, has no
\* effect and does not end the loop: the iteration on it leaves the map, the updates
\* and the gap as they are and the loop goes on, so processOps returns what it
\* returns for the batch without such ops.
C19_MalformedNoEffect ==
    CanStep(MaxOps) =>
        \A op \in Ops :
            ~WellFormed(op) =>
                LET c == After(call, op) IN
                /\ c.indexToRoomID = call.indexToRoomID
                /\ c.roomUpdates = call.roomUpdates
                /\ c.gapIndex = call.gapIndex
                /\ c.pc = "loop" /\ c.i = call.i + 1

\* processOps has returned from a batch of an op without its required fields and an
\* op with an unknown tag: the map is the stored one and there are no updates.
C19_Witness ==
    /\ call.pc = "returned" /\ call.i = 2
    /\ call.seen = {"malformed", "unknown"}
    /\ roomIndexToRoomId # EmptyMap
    /\ call.indexToRoomID = roomIndexToRoomId
    /\ call.roomUpdates = <<>>
    /\ call.gapIndex < 0

\* C20: the update list is exactly the rooms of the applied SYNC, INSERT and UPDATE
\* ops in op-array order (the rooms of a SYNC in index order), one entry per
\* occurrence even when a room occurs several times; DELETE and INVALIDATE ops (and
\* skipped ops) contribute no entry. The list is empty when the loop is entered and
\* every iteration appends the contribution of its op and nothing else.
C20_UpdatesInOrder ==
    /\ Begun.roomUpdates = <<>>
    /\ CanStep(MaxOps) =>
           \A op \in Ops :
               After(call, op).roomUpdates = call.roomUpdates \o Contribution(call, op)

\* processOps has returned from [UPDATE 0 a, UPDATE 0 a] with the room a twice in the
\* updates.
C20_Witness ==
    /\ call.pc = "returned" /\ call.i = 2
    /\ [call EXCEPT !.pc = "loop"] = After(After(Begun, UpdateAt(0, "a")), UpdateAt(0, "a"))
    /\ call.roomUpdates = <<"a", "a">>

----------------------------------------------------------------------------
\* Shorthands for the properties of abortOnTimeout.

\* abortOnTimeout has been called and no promise callback waits to run.
TimeoutQuiet == timeoutCall.pc = "called" /\ timeoutCall.jobs = <<>>

ConnectionErrorRejection == [state |-> "rejected", v |-> "ConnectionError"]

\* C21 as stated: when the timeout elapses before the response settles, once the
\* callbacks have run the request's abort() has been called and the returned promise
\* is rejected with a ConnectionError.
C21_TimeoutRejects ==
    (TimeoutQuiet /\ timeoutCall.respAtElapse = "pending") =>
        /\ timeoutCall.aborted
        /\ timeoutCall.promise = ConnectionErrorRejection

\* C21, amended: when the timeout elapses before the response settles, once the
\* callbacks have run the request's abort() has been called; and when the response is
\* still pending at the moment the callback of the timeout runs, the returned promise
\* is rejected with a ConnectionError and not with the AbortError of the abort.
C21_TimeoutRejectsWhilePending ==
    (TimeoutQuiet /\ timeoutCall.respAtElapse = "pending") =>
        /\ timeoutCall.aborted
        /\ timeoutCall.timedOut
        /\ timeoutCall.respAtTimedOut = "pending" =>
               /\ timeoutCall.response = [state |-> "rejected", v |-> "AbortError"]
               /\ timeoutCall.promise = ConnectionErrorRejection

\* The timeout has elapsed on a pending response, its callback has aborted the request
\* and the returned promise is rejected with a ConnectionError.
C21_Witness ==
    /\ TimeoutQuiet
    /\ timeoutCall.respAtElapse = "pending" /\ timeoutCall.respAtTimedOut = "pending"
    /\ timeoutCall.aborted
    /\ timeoutCall.promise = ConnectionErrorRejection

\* C22: when the response settles before the timeout elapses, once the callbacks have
\* run the timeout is aborted, the helper has not called the request's abort(), and
\* the returned promise is settled as the response is: resolved with the same value,
\* or rejected with the same error (an AbortError included).
C22_ResponseFirst ==
    (TimeoutQuiet /\ timeoutCall.timeoutAtSettle = "pending") =>
        /\ timeoutCall.timeout = "aborted"
        /\ ~timeoutCall.aborted
        /\ timeoutCall.promise = timeoutCall.response

\* the number of indexes at which the map m holds the room id x
Count(m, x) == Cardinality({j \in DOMAIN m : m[j] = x})

\* C23: on a map whose indexes from the gap g to the insert index i are all inside
\* tracked ranges and (but for g) occupied, the iterations on DELETE g and
\* INSERT i r move every room between i and g by one position toward g and put r at
\* i: with g > i, new[j + 1] = old[j] for i <= j < g; with g < i, new[j - 1] = old[j]
\* for g < j <= i; every index outside [min(g, i), max(g, i)] is unchanged; and the
\* rooms of the new map are those of the old one, less one old[g], plus one r.
C23_DeleteInsertShifts ==
    CanStep(ShiftOps) =>
        \A g \in ShiftIndexes, i \in ShiftIndexes, r \in RoomIds :
            LET old == call.indexToRoomID
                new == After(After(call, DeleteAt(g)), InsertAt(i, r)).indexToRoomID
                lo == Min(g, i)
                hi == IF g > i THEN g ELSE i
            IN  (\A j \in lo..hi :
                     indexInRange(ranges, j) /\ (j # g => Truthy(Get(old, j)))) =>
                    /\ Get(new, i) = r
                    /\ g > i => \A j \in i..(g - 1) : Get(new, j + 1) = Get(old, j)
                    /\ g < i => \A j \in (g + 1)..i : Get(new, j - 1) = Get(old, j)
                    /\ \A j \in Keys(old, new) \ (lo..hi) : SameAt(old, new, j)
                    /\ \A x \in RoomIds :
                           Count(new, x) = Count(old, x)
                                           - (IF Get(old, g) = x THEN 1 ELSE 0)
                                           + (IF r = x THEN 1 ELSE 0)

\* [DELETE 0, INSERT 2 b] has been applied to {0:a, 1:b, 2:a} with the window [0, 2]:
\* the rooms of the indexes 1 and 2 have moved to 0 and 1, and b is at index 2.
C23_Witness ==
    /\ call.pc = "loop" /\ call.i = 2
    /\ ranges = <<<<0, 2>>>>
    /\ roomIndexToRoomId = (0 :> "a") @@ (1 :> "b") @@ (2 :> "a")
    /\ call = After(After(Begun, DeleteAt(0)), InsertAt(2, "b"))
    /\ call.indexToRoomID = (0 :> "b") @@ (1 :> "a") @@ (2 :> "b")

----------------------------------------------------------------------------
\* Properties of Heroes.

\* C29: after applyChanges(calculateChanges(newHeroes, changedMembers, txn), summary)
\* every user id of the hero member set is contained in newHeroes, for every prior
\* member set and every changedMembers list: a former hero that is absent from
\* newHeroes is removed even when it is also among the changed members.
C29_MembersAreHeroes ==
    heroes.pc = "idle" =>
        \A u \in MapKeys(heroes.members) : Includes(heroes.newHeroes, u)

\* C30: calculateRoomName returns null for an empty room (no hero members and
\* joinCount + inviteCount - 1 <= 0), so that applyChanges on an empty hero set
\* completes and leaves roomName null: whenever changes wait to be applied, applying
\* them with any such summary, when it leaves no members, does not throw and sets
\* the room name to null.
C30_EmptyRoomNameNull ==
    heroes.pc = "calculated" =>
        \A summary \in Summaries :
            LET h == applyChanges(heroes, heroes.changes, summary)
            IN  (h.members = <<>> /\ summary.joinCount + summary.inviteCount - 1 <= 0) =>
                    ~h.threw /\ h.roomName = NameNull

----------------------------------------------------------------------------
\* Further properties of the sync loop.

\* loop i issues its request in this step (line 179)
Issues(i) == loops[i].pc = "sleep" /\ loops'[i].pc = "request"
\* loop i receives a response and calls processResponse in this step (lines 180-184)
Receives(i) == loops[i].pc = "request" /\ loops'[i].pc = "process"
\* a request or the processing of a response of loop i fails in this step with an
\* error that is not an AbortError (lines 199-209)
Fails(i) == loops[i].pc \in {"request", "process"} /\ loops'[i].pc = "backoff"
\* the loop l has received a response and processResponse has reconciled its ops and
\* handed the updates to prepareResponse, whose body is empty (lines 220-224, 371-395)
HandedOff(l) == l.pc = "process" /\ ~l.respBad

\* C24: every request issued while status is InitialSync carries no pos, and every
\* request issued while status is Syncing carries a pos, that of the most recent
\* response the loop has processed with success; also after stop() and start().
C24_RequestPos ==
    [][\A i \in LoopIds :
           Issues(i) =>
               /\ status = "InitialSync" => loops'[i].reqPos = Undefined
               /\ status = "Syncing" =>
                      /\ loops'[i].reqPos # Undefined
                      /\ loops[i].lastOutcome # "none"
                      /\ loops'[i].reqPos = loops[i].pos]_vars

\* C25: the error slot holds the last failure the loop has met: after a request or
\* the processing of its response has failed with an error that is not a
\* cancellation, error is that failure (it is not null); start() from Stopped sets
\* error to null; and the failure is not thrown out of the loop, which goes on to
\* its backoff sleep.
C25_ErrorRecorded ==
    [][/\ \A i \in LoopIds : Fails(i) => error' # "null"
       /\ (status = "Stopped" /\ lastCall' = "start") => error' = "null"]_vars

\* C27: for each response the order is: the response is received, reconciliation and
\* handoff are completed, pos is advanced, the next request is issued. pos changes
\* only in the step that follows a completed handoff, to the pos of that response;
\* and a request is issued only by a loop that holds no response whose pos it has
\* yet to take, with the pos it has then.
C27_HandoffBeforePos ==
    [][\A i \in LoopIds :
           /\ (loops'[i].pos # loops[i].pos /\ loops'[i].pc # "none") =>
                  HandedOff(loops[i]) /\ loops'[i].pos = loops[i].resp
           /\ Receives(i) => loops'[i].pos = loops[i].pos
           /\ Issues(i) =>
                  /\ loops[i].resp = Undefined
                  /\ loops'[i].reqPos = loops[i].pos]_vars

\* A loop has received the response with pos 1, has advanced to it and then, on a
\* second response with pos 2, has advanced again and issued the request with pos 2.
C27_Witness ==
    \E i \in LoopIds :
        /\ loops[i].pc = "request" /\ loops[i].req = "flight"
        /\ loops[i].lastOutcome = "ok"
        /\ loops[i].pos = 2 /\ loops[i].reqPos = 2
        /\ status = "Syncing"

\* C28: while status is Stopped no request is issued, no response is reconciled and
\* pos is not advanced: a loop that is stopped at a suspension point and not started
\* again does none of these.
C28_StoppedIsQuiet ==
    [][status = "Stopped" =>
           \A i \in LoopIds :
               /\ ~Issues(i)
               /\ ~Receives(i)
               /\ loops'[i].pc # "none" => loops'[i].pos = loops[i].pos]_vars

----------------------------------------------------------------------------
\* C26: a room payload without a room_id is dropped by processOps, for SYNC, INSERT
\* and UPDATE alike: no iteration appends an entry without a room_id to the update
\* list, and none sets an index of the map that its op addresses (the indexes of the
\* range of a SYNC, the index of an INSERT) to a missing room id.
C26_NoRoomIdDropped ==
    CanStep(MaxOps) =>
        \A op \in PayloadOps :
            LET c == After(call, op)
                addressed == CASE op.op = "SYNC" -> op.range[1]..op.range[2]
                               [] op.op = "INSERT" -> {op.index}
                               [] OTHER -> {}
            IN  /\ \A k \in (Len(call.roomUpdates) + 1)..Len(c.roomUpdates) :
                       Truthy(c.roomUpdates[k])
                /\ \A j \in addressed \cap DOMAIN c.indexToRoomID :
                       ~SameAt(call.indexToRoomID, c.indexToRoomID, j) =>
                           Truthy(c.indexToRoomID[j])

----------------------------------------------------------------------------
\* Properties of IDBLogger.

\* C31: under any interleaving of _persistItem, _tryFlush (two overlapping flushes
\* included) and _removeItems, a log item leaves the in-memory queue only if a
\* committed flush transaction has written it to the logs store or it was itself
\* passed to _removeItems: every item persisted so far is in the queue, or has been
\* flushed, or has been passed to _removeItems. (Hence items queued while a flush is
\* pending stay queued, and a failed flush takes nothing from the queue.)
C31_NoItemLost ==
    \A id \in 1..logger.itemCounter :
        \/ id \in SeqRange(logger.queuedItems)
        \/ id \in logger.flushed
        \/ id \in logger.passed

====
